---- MODULE Spec2Model ----
(***************************************************************************)
(* Water-level API (src/main.py): a SQLite table of readings behind five  *)
(* FastAPI endpoints.  Endpoints are plain `def` handlers, so requests    *)
(* run concurrently in a thread pool; each request owns one SQLAlchemy    *)
(* session obtained from get_db.  The model follows every request through *)
(* its database statements: the INSERTs of a flush (which take SQLite's   *)
(* single write lock), COMMIT, the read-back of the stored rows, the      *)
(* SELECTs of the GET handlers, the ARIMA fit, and the close of the       *)
(* session in get_db's finally clause.                                    *)
(***************************************************************************)
EXTENDS Integers, Sequences, FiniteSets, TLC

\* ---------------------------------------------------------------- bounds
NumReq == 2          \* request slots that may be in flight together
MaxInserted == 3     \* rows inserted on top of the initial table
MaxBatch == 2        \* longest body of POST /water-levels/
MaxLevel == 2        \* levels are drawn from 1..MaxLevel

\* ------------------------------------------------------ program constants
MIN_POINTS == 10     \* `len(historical_data) < 10`
DAYS_AHEAD == 15     \* `days_ahead=15`

Requests == 1..NumReq
Levels == 1..MaxLevel
NoReq == 0

VARIABLES table, writer, req, log, table0

vars == <<table, writer, req, log, table0>>

\* ------------------------------------------------------------ JSON bodies
\* A JSON value offered for the field `level`: a number, or something that
\* is not numeric (a word, null, an object).
JsonValues == {[num |-> TRUE, v |-> l] : l \in Levels} \cup {[num |-> FALSE, v |-> 0]}

RECURSIVE SeqsUpTo(_, _)
SeqsUpTo(S, n) ==
    IF n = 0 THEN {<<>>}
    ELSE LET shorter == SeqsUpTo(S, n - 1)
         IN  shorter \cup {Append(s, x) : s \in {t \in shorter : Len(t) = n - 1}, x \in S}

NoBody == [shape |-> TRUE, entries |-> <<>>]
WrongShape == [shape |-> FALSE, entries |-> <<>>]

\* Bodies a client may send to POST /water-level/ : {"level": <value>} or
\* a body of another shape.
SingleBodies == {[shape |-> TRUE, entries |-> <<j>>] : j \in JsonValues} \cup {WrongShape}

\* Bodies a client may send to POST /water-levels/ :
\* {"levels": [{"level": <value>}, ...]} or a body of another shape.
BatchBodies ==
    {[shape |-> TRUE, entries |-> s] : s \in SeqsUpTo(JsonValues, MaxBatch)} \cup {WrongShape}

\* pydantic: `level: float`
WaterLevel(body) ==
    body.shape /\ Len(body.entries) = 1 /\ body.entries[1].num

WaterLevelsFirstOnly(body) ==
    body.shape /\ (body.entries # <<>> => body.entries[1].num)

\* pydantic: `levels: List[WaterLevel]`
WaterLevels(body) ==
    body.shape /\ \A i \in 1..Len(body.entries) : body.entries[i].num

\* -------------------------------------------------------------- the table
Row(id, level) == [id |-> id, level |-> level]

\* A database file left by earlier runs: ids 1..n, as the table assigns them.
History == [i \in 1..(MIN_POINTS - 2) |-> Row(i, 1 + (i % MaxLevel))]

RECURSIVE MaxId(_)
MaxId(rows) ==
    IF rows = <<>> THEN 0
    ELSE LET m == MaxId(Tail(rows))
         IN  IF Head(rows).id > m THEN Head(rows).id ELSE m

BodyLevels(body) == [i \in 1..Len(body.entries) |-> body.entries[i].v]

LevelsOf(rows) == [i \in 1..Len(rows) |-> rows[i].level]
IdsOf(rows) == [i \in 1..Len(rows) |-> rows[i].id]

\* ----------------------------------------------------------- the requests
Kinds == {"add_water_level", "add_multiple_water_levels", "get_latest_water_level",
          "get_all_water_levels", "forecast_next_15_days"}
Inserts == {"add_water_level", "add_multiple_water_levels"}
Gets == {"get_latest_water_level", "get_all_water_levels", "forecast_next_15_days"}

NoForecast == [k \in {} |-> 0]

Response(status, fields, levels, forecast) ==
    [status |-> status, fields |-> fields, levels |-> levels, forecast |-> forecast]

NoResp == Response(0, {}, <<>>, NoForecast)
ValidationError == Response(422, {"detail"}, <<>>, NoForecast)
NotFound == Response(404, {"detail"}, <<>>, NoForecast)
ServerError == Response(500, {}, <<>>, NoForecast)
InsufficientData == Response(200, {"error"}, <<>>, NoForecast)

Idle ==
    [kind |-> "none", pc |-> "idle", body |-> NoBody, rows |-> <<>>, data |-> <<>>,
     fit |-> "none", read |-> FALSE, open |-> FALSE, acquired |-> 0, resp |-> NoResp]

InHandler(r, kind) == req[r].kind = kind /\ req[r].pc = "handler"

Init ==
    /\ table0 \in {<<>>, History}
    /\ table = table0
    /\ writer = NoReq
    /\ log = <<>>
    /\ req = [r \in Requests |-> Idle]


\* ------------------------------------------------------------- SQL reads
RECURSIVE MinIdIndex(_, _, _)
\* Index of the first row of least id among rows[i..], given the best so far.
MinIdIndex(rows, i, best) ==
    IF i > Len(rows) THEN best
    ELSE MinIdIndex(rows, i + 1, IF rows[i].id < rows[best].id THEN i ELSE best)

RemoveAt(rows, k) == [i \in 1..(Len(rows) - 1) |-> IF i < k THEN rows[i] ELSE rows[i + 1]]

RECURSIVE SelectAll(_)
\* `db.query(WaterLevelModel).all()`: a scan of the table in rowid order.
SelectAll(rows) ==
    IF rows = <<>> THEN <<>>
    ELSE LET k == MinIdIndex(rows, 1, 1)
         IN  <<rows[k]>> \o SelectAll(RemoveAt(rows, k))

SelectOldest(rows) ==
    IF rows = <<>> THEN <<>> ELSE <<rows[MinIdIndex(rows, 1, 1)]>>

\* `.order_by(WaterLevelModel.id.desc()).first()`: zero or one row.
SelectLatest(rows) ==
    IF rows = <<>> THEN <<>>
    ELSE <<CHOOSE x \in {rows[i] : i \in 1..Len(rows)} : x.id = MaxId(rows)>>

\* `db.refresh(obj)` / reload of an expired object: the stored row of that id.
SelectById(rows, id) ==
    CHOOSE x \in {rows[i] : i \in 1..Len(rows)} : x.id = id

load_water_levels(rows) == LevelsOf(SelectAll(rows))

\* ------------------------------------------------------------ the forecast
\* ARIMA(5,1,0).fit().forecast(steps): the numeric result is not computed
\* here; it is any one of a family of series of `steps` values that differ
\* position by position.
forecast_water_levels(data, days_ahead) ==
    {[i \in 1..days_ahead |-> data[Len(data)] + d * i] : d \in {0, 1}}

DayKeyFromZero(i) == "day_" \o ToString(i)

\* f"day_{i+1}"
DayKey(i) == "day_" \o ToString(i + 1)

\* {f"day_{i+1}": level for i, level in enumerate(prediction)}
ForecastDict(prediction) ==
    LET idx == 0..(Len(prediction) - 1)
    IN  [k \in {DayKey(i) : i \in idx} |->
            prediction[(CHOOSE i \in idx : DayKey(i) = k) + 1]]

TooFewOffByOne(data) == Len(data) < MIN_POINTS - 1

\* `if len(historical_data) < 10`
TooFew(data) == Len(data) < MIN_POINTS

\* ------------------------------------------------------------- the session
\* get_db up to its yield: `db = SessionLocal()`
get_db(q) == [q EXCEPT !.open = TRUE, !.acquired = @ + 1]

CanWriteUnlocked(r) == TRUE

\* SQLite admits one writing transaction at a time.
CanWrite(r) == writer \in {NoReq, r}

NextIdStale(r) == MaxId(table) + 1

\* INTEGER PRIMARY KEY: the next rowid, seen from inside r's transaction.
NextId(r) == MaxId(table \o req[r].rows) + 1

RECURSIVE PendingRows(_)
PendingRows(n) ==
    IF n = 0 THEN 0
    ELSE PendingRows(n - 1) +
         (IF req[n].kind \in Inserts /\ req[n].pc = "handler"
          THEN Len(req[n].body.entries) ELSE 0)

Valid(kind, body) ==
    CASE kind = "add_water_level" -> WaterLevel(body)
      [] kind = "add_multiple_water_levels" -> WaterLevels(body)
      [] OTHER -> TRUE

BodiesOf(kind) ==
    CASE kind = "add_water_level" -> SingleBodies
      [] kind = "add_multiple_water_levels" -> BatchBodies
      [] OTHER -> {NoBody}

\* -------------------------------------------------------------- the steps
\* A request arrives: FastAPI resolves Depends(get_db), validates the body
\* against the pydantic model and, if it fits, calls the handler.
Receive(r, kind, body) ==
    /\ req[r].pc \in {"idle", "done"}
    /\ kind \in Inserts /\ Valid(kind, body) =>
         (Len(table) - Len(table0)) + PendingRows(NumReq) + Len(body.entries) <= MaxInserted
    /\ LET q == get_db([Idle EXCEPT !.kind = kind, !.body = body])
       IN  req' = [req EXCEPT ![r] =
                IF Valid(kind, body)
                THEN [q EXCEPT !.pc = "handler"]
                ELSE [q EXCEPT !.pc = "exit", !.resp = ValidationError]]
    /\ UNCHANGED <<table, writer, log, table0>>

\* As InsertRow on a connection in autocommit mode: every INSERT is final.
InsertRowAutocommit(r) ==
    /\ req[r].kind \in Inserts /\ req[r].pc = "handler"
    /\ Len(req[r].rows) < Len(req[r].body.entries)
    /\ CanWrite(r)
    /\ LET row == Row(NextId(r), req[r].body.entries[Len(req[r].rows) + 1].v)
       IN  /\ table' = Append(table, row)
           /\ req' = [req EXCEPT ![r].rows = Append(@, row)]
    /\ UNCHANGED <<writer, log, table0>>

\* db.commit(), flush: one INSERT per pending object, in the order added.
\* The first INSERT opens the transaction and takes the write lock.
InsertRow(r) ==
    /\ req[r].kind \in Inserts /\ req[r].pc = "handler"
    /\ Len(req[r].rows) < Len(req[r].body.entries)
    /\ CanWrite(r)
    /\ writer' = r
    /\ req' = [req EXCEPT ![r].rows =
            Append(@, Row(NextId(r), req[r].body.entries[Len(req[r].rows) + 1].v))]
    /\ UNCHANGED <<table, log, table0>>

\* The write lock is held by another connection until the busy timeout:
\* sqlite3.OperationalError("database is locked") leaves the handler.
Busy(r) ==
    /\ req[r].kind \in Inserts /\ req[r].pc = "handler"
    /\ Len(req[r].rows) < Len(req[r].body.entries)
    /\ ~CanWrite(r)
    /\ req' = [req EXCEPT ![r].pc = "exit", ![r].resp = ServerError]
    /\ UNCHANGED <<table, writer, log, table0>>

\* As Commit, writing the transaction's rows over the table.
CommitOverwrite(r) ==
    /\ req[r].kind \in Inserts /\ req[r].pc = "handler"
    /\ Len(req[r].rows) = Len(req[r].body.entries)
    /\ table' = [i \in 1..Len(table) |->
                    IF i <= Len(req[r].rows) THEN req[r].rows[i] ELSE table[i]]
    /\ log' = log \o BodyLevels(req[r].body)
    /\ writer' = IF writer = r THEN NoReq ELSE writer
    /\ req' = [req EXCEPT ![r].pc = "committed"]
    /\ UNCHANGED table0

\* db.commit(), COMMIT: the rows of the transaction become the table's.
Commit(r) ==
    /\ req[r].kind \in Inserts /\ req[r].pc = "handler"
    /\ Len(req[r].rows) = Len(req[r].body.entries)
    /\ table' = table \o req[r].rows
    /\ log' = log \o BodyLevels(req[r].body)
    /\ writer' = IF writer = r THEN NoReq ELSE writer
    /\ req' = [req EXCEPT ![r].pc = "committed"]
    /\ UNCHANGED table0

\* db.commit() raises (I/O error, lock not granted): the transaction is
\* rolled back and the exception leaves the handler.
CommitFail(r) ==
    /\ req[r].kind \in Inserts /\ req[r].pc = "handler"
    /\ writer = r
    /\ writer' = NoReq
    /\ req' = [req EXCEPT ![r].pc = "exit", ![r].rows = <<>>, ![r].resp = ServerError]
    /\ UNCHANGED <<table, log, table0>>

\* add_water_level: db.refresh(new_level); return message and level.
\* add_multiple_water_levels: entry.level reloads each expired object.
Echo(r) ==
    /\ req[r].kind \in Inserts /\ req[r].pc = "committed"
    /\ LET stored == [i \in 1..Len(req[r].rows) |-> SelectById(table, req[r].rows[i].id).level]
           fields == IF req[r].kind = "add_water_level"
                     THEN {"message", "level"} ELSE {"message", "levels"}
       IN  req' = [req EXCEPT ![r].pc = "exit",
                              ![r].resp = Response(200, fields, stored, NoForecast)]
    /\ UNCHANGED <<table, writer, log, table0>>

\* The read-back after the commit raises: the handler is left with the
\* exception, the committed rows stay.
EchoFail(r) ==
    /\ req[r].kind \in Inserts /\ req[r].pc = "committed"
    /\ req[r].rows # <<>>
    /\ req' = [req EXCEPT ![r].pc = "exit", ![r].resp = ServerError]
    /\ UNCHANGED <<table, writer, log, table0>>

\* The SELECT of a GET handler raises before it returns any row.
QueryFail(r) ==
    /\ req[r].kind \in Gets /\ req[r].pc = "handler"
    /\ req' = [req EXCEPT ![r].pc = "exit", ![r].resp = ServerError]
    /\ UNCHANGED <<table, writer, log, table0>>

get_latest_water_level(r) ==
    /\ InHandler(r, "get_latest_water_level")
    /\ LET result == SelectLatest(table)
       IN  req' = [req EXCEPT ![r].pc = "exit", ![r].read = TRUE,
                    ![r].data = LevelsOf(SelectAll(table)),
                    ![r].resp = IF result = <<>> THEN NotFound
                                ELSE Response(200, {"latest_level"}, <<result[1].level>>, NoForecast)]
    /\ UNCHANGED <<table, writer, log, table0>>

get_all_water_levels(r) ==
    /\ InHandler(r, "get_all_water_levels")
    /\ LET results == SelectAll(table)
       IN  req' = [req EXCEPT ![r].pc = "exit", ![r].read = TRUE, ![r].data = LevelsOf(results),
                    ![r].resp = IF results = <<>> THEN NotFound
                                ELSE Response(200, {"all_levels"}, LevelsOf(results), NoForecast)]
    /\ UNCHANGED <<table, writer, log, table0>>

\* forecast_next_15_days up to the call of forecast_water_levels.
Load(r) ==
    /\ InHandler(r, "forecast_next_15_days")
    /\ LET historical_data == load_water_levels(table)
       IN  req' = [req EXCEPT ![r] =
                IF TooFew(historical_data)
                THEN [@ EXCEPT !.pc = "exit", !.read = TRUE, !.data = historical_data,
                               !.resp = InsufficientData]
                ELSE [@ EXCEPT !.pc = "fit", !.read = TRUE, !.data = historical_data,
                               !.fit = "entered"]]
    /\ UNCHANGED <<table, writer, log, table0>>

\* forecast_water_levels returns; the handler keys the values by day.
FitOk(r) ==
    /\ req[r].kind = "forecast_next_15_days" /\ req[r].pc = "fit"
    /\ \E prediction \in forecast_water_levels(req[r].data, DAYS_AHEAD) :
         req' = [req EXCEPT ![r].pc = "exit", ![r].fit = "returned",
                    ![r].resp = Response(200, {"15_day_forecast"}, prediction,
                                         ForecastDict(prediction))]
    /\ UNCHANGED <<table, writer, log, table0>>

\* As FitFail with the exception caught and answered as "not enough data".
FitFailSwallowed(r) ==
    /\ req[r].kind = "forecast_next_15_days" /\ req[r].pc = "fit"
    /\ req' = [req EXCEPT ![r].pc = "exit", ![r].fit = "raised", ![r].resp = InsufficientData]
    /\ UNCHANGED <<table, writer, log, table0>>

\* model.fit() / forecast() raises; nothing in the handler catches it.
FitFail(r) ==
    /\ req[r].kind = "forecast_next_15_days" /\ req[r].pc = "fit"
    /\ req' = [req EXCEPT ![r].pc = "exit", ![r].fit = "raised", ![r].resp = ServerError]
    /\ UNCHANGED <<table, writer, log, table0>>

\* As Close without the try/finally: an exception skips db.close().
CloseOnReturnOnly(r) ==
    /\ req[r].pc = "exit"
    /\ req' = [req EXCEPT ![r].pc = "done",
                          ![r].open = (req[r].resp.status >= 400)]
    /\ UNCHANGED <<table, writer, log, table0>>

\* get_db after its yield: `finally: db.close()`
Close(r) ==
    /\ req[r].pc = "exit"
    /\ req' = [req EXCEPT ![r].pc = "done", ![r].open = FALSE]
    /\ UNCHANGED <<table, writer, log, table0>>

Next ==
    \E r \in Requests :
        \/ \E kind \in Kinds : \E body \in BodiesOf(kind) : Receive(r, kind, body)
        \/ InsertRow(r)
        \/ Busy(r)
        \/ Commit(r)
        \/ CommitFail(r)
        \/ Echo(r)
        \/ EchoFail(r)
        \/ QueryFail(r)
        \/ get_latest_water_level(r)
        \/ get_all_water_levels(r)
        \/ Load(r)
        \/ FitOk(r)
        \/ FitFail(r)
        \/ Close(r)

Spec == Init /\ [][Next]_vars


\* ============================================================== properties
Finished(r) == req[r].pc \in {"exit", "done"}
Inserted == LevelsOf(table0) \o log
IsPrefix(s, t) == Len(s) <= Len(t) /\ \A i \in 1..Len(s) : s[i] = t[i]

\* C1: after any sequence of committed insertions (single or batch), the
\* query of GET /water-level/all/ yields exactly the inserted levels in
\* insertion order (after the rows the store started with), every answer
\* that endpoint gave is such a list, and the ids of the rows it lists are
\* strictly increasing, the first inserted one being the store's next id.
C1_AllReturnsInsertedInOrder ==
    LET results == SelectAll(table)
    IN  /\ LevelsOf(results) = Inserted
        /\ \A i, j \in 1..Len(results) : i < j => results[i].id < results[j].id
        /\ Len(results) > Len(table0) => results[Len(table0) + 1].id = MaxId(table0) + 1
        /\ \A r \in Requests :
             req[r].kind = "get_all_water_levels" /\ Finished(r) /\ req[r].resp.status = 200
                => /\ req[r].resp.levels # <<>>
                   /\ IsPrefix(req[r].resp.levels, Inserted)

C1_Witness ==
    /\ table0 = <<>>
    /\ Len(log) = 3 /\ log[1] # log[2]
    /\ \E r \in Requests :
         /\ req[r].kind = "get_all_water_levels" /\ req[r].pc = "done"
         /\ req[r].resp.levels = log

\* C2: on every store state the latest-query is empty iff the all-query is
\* empty iff the store holds no reading, and otherwise its level is the last
\* element of the all-query; every answer of the two endpoints whose query
\* returned is NotFound iff the store it read held no reading, and a latest
\* answer carries the last level of the store it read.
C2_LatestIsLastOfAll ==
    /\ (SelectLatest(table) = <<>>) = (Len(table) = 0)
    /\ (SelectAll(table) = <<>>) = (Len(table) = 0)
    /\ Len(table) > 0 =>
         SelectLatest(table)[1].level = LevelsOf(SelectAll(table))[Len(table)]
    /\ \A r \in Requests :
         req[r].kind \in {"get_latest_water_level", "get_all_water_levels"} /\ req[r].read
            => /\ (req[r].resp = NotFound) = (req[r].data = <<>>)
               /\ req[r].resp.status \in {200, 404}
               /\ req[r].kind = "get_latest_water_level" /\ req[r].data # <<>>
                    => req[r].resp.levels = <<req[r].data[Len(req[r].data)]>>

C2_Witness ==
    /\ Len(table) >= 2 /\ table[1].level # table[Len(table)].level
    /\ \E r \in Requests :
         /\ req[r].kind = "get_latest_water_level" /\ req[r].pc = "done"
         /\ req[r].resp.levels = <<table[Len(table)].level>>
    /\ \E r \in Requests :
         /\ req[r].kind = "get_all_water_levels" /\ req[r].pc = "done"
         /\ req[r].resp.levels = LevelsOf(table)

\* C3: a forecast request that read fewer than 10 readings never enters
\* forecast_water_levels and answers with status 200 and the single field
\* "error": neither a forecast nor NotFound.
C3_TooFewNeverFits ==
    \A r \in Requests :
        req[r].kind = "forecast_next_15_days" /\ req[r].read /\ Len(req[r].data) < 10
           => /\ req[r].fit = "none"
              /\ req[r].pc # "fit"
              /\ req[r].resp.status = 200
              /\ req[r].resp.fields = {"error"}
              /\ req[r].resp.forecast = NoForecast

C3_Witness ==
    \E r \in Requests :
        /\ req[r].kind = "forecast_next_15_days" /\ req[r].pc = "done"
        /\ Len(req[r].data) = 9
        /\ req[r].resp = InsufficientData

DayLabels ==
    <<"day_1", "day_2", "day_3", "day_4", "day_5", "day_6", "day_7", "day_8",
      "day_9", "day_10", "day_11", "day_12", "day_13", "day_14", "day_15">>

\* C4: a forecast request that read 10 or more readings (exactly 10
\* included) never answers InsufficientData, and when the fit returns, its
\* answer holds exactly the 15 keys day_1 .. day_15, day_i holding the i-th
\* value the engine returned.
C4_FifteenDayKeys ==
    \A r \in Requests :
        req[r].kind = "forecast_next_15_days" /\ Finished(r) /\ req[r].read
        /\ Len(req[r].data) >= 10
           => /\ req[r].resp # InsufficientData
              /\ req[r].fit \in {"returned", "raised"}
              /\ req[r].fit = "returned"
                   => /\ req[r].resp.status = 200
                      /\ req[r].resp.fields = {"15_day_forecast"}
                      /\ Len(req[r].resp.levels) = 15
                      /\ DOMAIN req[r].resp.forecast = {DayLabels[i] : i \in 1..15}
                      /\ Cardinality(DOMAIN req[r].resp.forecast) = 15
                      /\ \A i \in 1..15 :
                           req[r].resp.forecast[DayLabels[i]] = req[r].resp.levels[i]

C4_Witness ==
    \E r \in Requests :
        /\ req[r].kind = "forecast_next_15_days" /\ req[r].pc = "done"
        /\ Len(req[r].data) = 10
        /\ req[r].fit = "returned"
        /\ req[r].resp.forecast["day_1"] # req[r].resp.forecast["day_15"]

\* C5: whatever the interleaving of insertion requests, the committed rows
\* carry, in order of commit, the ids 1, 2, 3, ...: no id twice, ids
\* increasing with commit order, no gap, the new ones continuing from the
\* store's next id.
C5_IdsUniqueIncreasingGapFree ==
    /\ \A i \in 1..Len(table) : table[i].id = i
    /\ \A r \in Requests :
         req[r].kind \in Inserts /\ req[r].pc = "handler"
            => \A i \in 1..Len(req[r].rows) : req[r].rows[i].id = Len(table) + i

C5_Witness ==
    /\ Len(table) > Len(table0)
    /\ \E r1, r2 \in Requests :
         /\ r1 # r2
         /\ req[r1].kind \in Inserts /\ req[r1].pc = "handler" /\ writer = r1
         /\ req[r2].kind \in Inserts /\ req[r2].pc = "handler"
         /\ req[r2].rows = <<>> /\ req[r2].body.entries # <<>>


Batch(r) == req[r].kind = "add_multiple_water_levels"

\* The rows of request r stand in the table, next to one another, in the
\* order and with the levels of its body.
StoredTogether(r) ==
    \E off \in 0..Len(table) :
        /\ off + Len(req[r].rows) <= Len(table)
        /\ \A i \in 1..Len(req[r].rows) :
             /\ table[off + i] = req[r].rows[i]
             /\ table[off + i].id = off + i
             /\ table[off + i].level = req[r].body.entries[i].v

C6_State ==
    \A r \in Requests :
        Batch(r) =>
           /\ req[r].pc = "handler"
                => \A i \in 1..Len(req[r].rows), j \in 1..Len(table) :
                      table[j].id # req[r].rows[i].id
           /\ req[r].pc = "committed" \/ (Finished(r) /\ req[r].resp.status = 200)
                => /\ Len(req[r].rows) = Len(req[r].body.entries)
                   /\ StoredTogether(r)
                   /\ Finished(r) => req[r].resp.levels = BodyLevels(req[r].body)
           /\ req[r].rows # <<>> /\ req[r].pc # "handler"
                => Len(req[r].rows) = Len(req[r].body.entries)
           /\ Finished(r) /\ req[r].resp.status # 200
                => req[r].rows = <<>> \/ StoredTogether(r)

\* C6 as first stated: all-or-nothing and order-preserving, and a batch
\* request that ends in failure has left none of its rows in the store.
C6_AsStated ==
    /\ C6_State
    /\ \A r \in Requests :
         Batch(r) /\ Finished(r) /\ req[r].resp.status # 200
            => \A i \in 1..Len(req[r].rows), j \in 1..Len(table) :
                  table[j].id # req[r].rows[i].id

C6_Step ==
    \A r \in Requests :
        Batch(r) /\ req[r].pc = "handler" =>
           /\ req'[r].pc = "committed"
                => /\ Len(table') = Len(table) + Len(req[r].body.entries)
                   /\ IsPrefix(table, table')
                   /\ \A i \in 1..Len(req[r].body.entries) :
                        table'[Len(table) + i].level = req[r].body.entries[i].v
           /\ req'[r] # req[r] /\ req'[r].pc # "committed" => table' = table

\* C6: POST /water-levels/ is all-or-nothing and keeps the order: while the
\* transaction runs none of its rows is in the table other requests read;
\* its commit adds exactly its k rows in one step, with consecutive ids, in
\* input order, no row of another request between them; every other step
\* of the request leaves the table as it was.  A request that ends in
\* failure has stored none of its rows (its transaction failed) or all of
\* them (the read-back after the commit failed).
C6_BatchAtomic == []C6_State /\ [][C6_Step]_vars

C6_Witness ==
    \E r1, r2 \in Requests :
        /\ r1 # r2
        /\ Batch(r1) /\ req[r1].pc = "done" /\ req[r1].resp.status = 200
        /\ Len(req[r1].rows) = 2 /\ req[r1].rows[1].level # req[r1].rows[2].level
        /\ Batch(r2) /\ req[r2].pc = "done" /\ req[r2].resp = ServerError
        /\ req[r2].body.entries # <<>> /\ req[r2].rows = <<>>

Malformed(body) ==
    \/ ~body.shape
    \/ \E i \in 1..Len(body.entries) : ~body.entries[i].num

\* C8: an insertion request whose body is malformed (wrong shape, or any
\* entry not numeric, also when other entries are well formed) never
\* reaches its handler: it is answered 422, inserts no row, and the table
\* never holds a value that is not a number a well-formed body carried.
C8_MalformedRejected ==
    /\ \A r \in Requests :
         req[r].kind \in Inserts /\ Malformed(req[r].body)
            => /\ Finished(r)
               /\ req[r].resp = ValidationError
               /\ req[r].rows = <<>>
               /\ writer # r
    /\ \A i \in 1..Len(table) : table[i].level \in Levels
    /\ Len(table) = Len(table0) + Len(log)

C8_Witness ==
    /\ table = table0
    /\ \E r \in Requests :
         /\ Batch(r) /\ req[r].pc = "done"
         /\ Len(req[r].body.entries) = 2
         /\ req[r].body.entries[1].num /\ ~req[r].body.entries[2].num
         /\ req[r].resp = ValidationError
    /\ \E r \in Requests :
         /\ req[r].kind = "add_water_level" /\ req[r].pc = "done"
         /\ req[r].resp = ValidationError

C9_Step ==
    /\ IsPrefix(table, table')
    /\ \A r \in Requests :
         req'[r] # req[r] /\ req'[r].kind \in Gets => table' = table

\* C9: the store is an append-only log: every step of every endpoint keeps
\* each stored row, with its id and level, at its place, and the steps of
\* the three GET endpoints leave the table unchanged.
C9_AppendOnly == [][C9_Step]_vars

C9_Witness ==
    /\ table0 # <<>> /\ Len(table) = Len(table0) + 3
    /\ \E r \in Requests : req[r].kind \in Gets /\ req[r].pc = "done"
    /\ \E r \in Requests : req[r].kind \in Inserts /\ req[r].pc = "done"

InFlight(r) == req[r].pc \in {"handler", "committed", "fit", "exit"}
OpenHandles == Cardinality({r \in Requests : req[r].open})

\* C10: a request holds exactly one session from its start to its end, and
\* the session is closed once it has ended, whichever way the handler was
\* left (return, 404, InsufficientData, exception of commit or of the fit,
\* validation error); with no request in flight no session is open.
C10_HandleReleased ==
    /\ \A r \in Requests :
         /\ InFlight(r) => req[r].open /\ req[r].acquired = 1
         /\ req[r].pc = "done" => ~req[r].open /\ req[r].acquired = 1
         /\ req[r].pc = "idle" => ~req[r].open /\ req[r].acquired = 0
    /\ (\A r \in Requests : ~InFlight(r)) => OpenHandles = 0

C10_Witness ==
    /\ OpenHandles = 0
    /\ \E r \in Requests : req[r].pc = "done" /\ req[r].resp = ServerError
    /\ \E r \in Requests : req[r].pc = "done" /\ req[r].resp = NotFound

====
